---- MODULE Spec2Model ----
(***************************************************************************)
(* AirBnB clone v3 - RESTful API (api/v1).  A state-machine model of the   *)
(* view handlers of api/v1/views/*.py, the 404 handler and the teardown    *)
(* of api/v1/app.py, over the storage engine they call.                   *)
(*                                                                         *)
(* The storage engine and the model classes (package models/) are not     *)
(* part of the source tree; their behaviour (get/all/count/new/save/      *)
(* delete/close, the BaseModel constructor, to_dict and save) is taken    *)
(* from the interface description of the specification.                   *)
(*                                                                         *)
(* JSON scalars are modelled by naturals: 0 is a falsy scalar ("", 0,     *)
(* null), every other number is a truthy scalar.  Object ids are the      *)
(* naturals 1, 2, ... handed out per class, never reused.                 *)
(***************************************************************************)
EXTENDS Integers, Sequences, FiniteSets, TLC

\* ------------------------------------------------------------------ bounds
\* objects ever created per class
MaxObjs == 1
\* objects of the repository that have been updated
MaxUpdated == 1
\* length of an amenity_ids list supplied in a payload
MaxIds == 2
\* objects ever created per class where a specification needs siblings: two
\* parents to list the children of, two amenities to link
MaxSiblings == 2

\* ------------------------------------------------------- classes and keys
Classes == {"State", "City", "User", "Place", "Review", "Amenity"}

\* the __class__ discriminator that to_dict() reports, as a scalar
ClassCode(cls) ==
  CASE cls = "State" -> 1 [] cls = "City" -> 2 [] cls = "User" -> 3
    [] cls = "Place" -> 4 [] cls = "Review" -> 5 [] cls = "Amenity" -> 6

\* python truthiness of a JSON scalar
Truthy(v) == v # 0

\* ids a client may name in a path or in a payload: every id that can be
\* handed out, and one more that never exists
PathIds == 1..(MaxObjs + 1)

VARIABLES
  HBNB_TYPE_STORAGE,  \* "db" (relational) or "file" (embedded id lists)
  objects,            \* storage: <<class, id>> -> the stored object
  created,            \* per class: objects created so far (next id - 1)
  deleted,            \* per class: objects deleted so far
  req,                \* the request being served, none between requests
  resp,               \* its response
  calls,              \* the storage calls its handler made, in order, and
                      \* its append to / remove from a place's amenity list
  pc,                 \* "idle", or "teardown" once the handler has returned
  threads             \* per server thread (app.run(..., threaded=True)): the
                      \* link request it is serving, and where in the handler

vars == <<HBNB_TYPE_STORAGE, objects, created, deleted, req, resp, calls, pc, threads>>

\* ------------------------------------------------------ python dictionaries
EmptyDict == [k \in {} |-> 0]

\* d.get(key, None)
DictGet(d, key) == IF key \in DOMAIN d THEN d[key] ELSE 0

\* d[key] = value
DictSet(d, key, value) ==
  [k \in (DOMAIN d) \cup {key} |-> IF k = key THEN value ELSE d[k]]

\* all dictionaries over a subset of the keys of vals, key k taking its
\* values in vals[k]
DictsOver(vals) ==
  {d \in UNION {[ks -> UNION {vals[k] : k \in ks}] : ks \in SUBSET (DOMAIN vals)} :
     \A k \in DOMAIN d : d[k] \in vals[k]}

\* sequences over S of length at most n
RECURSIVE SeqsUpTo(_, _)
SeqsUpTo(S, n) ==
  IF n = 0 THEN {<<>>}
  ELSE LET shorter == SeqsUpTo(S, n - 1)
       IN shorter \cup {Append(s, x) : s \in {t \in shorter : Len(t) = n - 1}, x \in S}

\* value in list
InList(x, list) == \E i \in 1..Len(list) : list[i] = x

\* list.remove(value): drops the first occurrence
ListRemove(list, x) ==
  LET first == CHOOSE i \in 1..Len(list) :
                 list[i] = x /\ \A j \in 1..(i - 1) : list[j] # x
  IN [i \in 1..(Len(list) - 1) |-> IF i < first THEN list[i] ELSE list[i + 1]]

\* list.count(value)
RECURSIVE ListCount(_, _)
ListCount(list, x) ==
  IF list = <<>> THEN 0
  ELSE (IF Head(list) = x THEN 1 ELSE 0) + ListCount(Tail(list), x)

\* ------------------------------------------------------------ request bodies
\* request.get_json(silent=True) yields None for an absent or unparseable
\* body ("none"), or the parsed JSON value: an empty list ("list0", falsy),
\* a non-empty list ("list1", truthy; a non-empty string or a non-zero
\* number behave alike), or an object ("dict").  An object carries scalar
\* keys in kv and, when hasIds, the key amenity_ids with the list ids.
NoneBody == [kind |-> "none", kv |-> EmptyDict, hasIds |-> FALSE, ids |-> <<>>]
NonMappings ==
  {[kind |-> k, kv |-> EmptyDict, hasIds |-> FALSE, ids |-> <<>>] :
     k \in {"none", "list0", "list1"}}

Mappings(dicts) ==
  {[kind |-> "dict", kv |-> d, hasIds |-> FALSE, ids |-> <<>>] : d \in dicts}

MappingsWithIds(dicts) ==
  {[kind |-> "dict", kv |-> d, hasIds |-> TRUE, ids |-> s] :
     d \in dicts, s \in SeqsUpTo(PathIds, MaxIds)}

IsMapping(body) == body.kind = "dict"

\* `not data_dict`
BodyFalsy(body) ==
  \/ body.kind \in {"none", "list0"}
  \/ body.kind = "dict" /\ DOMAIN body.kv = {} /\ ~body.hasIds

\* the keys of a JSON object
BodyKeys(body) == (DOMAIN body.kv) \cup (IF body.hasIds THEN {"amenity_ids"} ELSE {})

\* payloads of the create requests, per class: the required fields (absent,
\* falsy or set), the foreign key the handler overwrites, a user reference
\* (absent, falsy, or an id)
CreateVals ==
  [State   |-> [name |-> {0, 1}],
   Amenity |-> [name |-> {0, 1}],
   City    |-> [name |-> {0, 1}, state_id |-> {9}],
   User    |-> [email |-> {0, 1}, password |-> {0, 1}],
   Place   |-> [user_id |-> {0} \cup PathIds, name |-> {0, 1}, city_id |-> {9}],
   Review  |-> [user_id |-> {0} \cup PathIds, text |-> {0, 1}, place_id |-> {9}]]

\* a User payload that carries an optional field and no required one
OptionalOnly == Mappings({[first_name |-> 1]})

CreateBodies ==
  [cls \in Classes |->
     NonMappings \cup Mappings(DictsOver(CreateVals[cls]))
       \cup (IF cls = "User" THEN OptionalOnly ELSE {})]

\* the keys an update must not change, per class (ignored_keys of the handlers)
Protected ==
  [State   |-> {"id", "created_at", "updated_at", "__class__"},
   Amenity |-> {"id", "created_at", "updated_at", "__class__"},
   City    |-> {"id", "created_at", "updated_at", "__class__", "state_id"},
   User    |-> {"id", "created_at", "updated_at", "__class__", "email"},
   Place   |-> {"id", "created_at", "updated_at", "__class__", "user_id", "city_id"},
   Review  |-> {"id", "created_at", "updated_at", "__class__", "place_id", "user_id"}]

\* the schema field an update may change, per class
Field ==
  [State |-> "name", Amenity |-> "name", City |-> "name", User |-> "password",
   Place |-> "name", Review |-> "text"]

\* payloads of the update requests, per class: any of the schema field and an
\* unknown key x, with a new value, and none or all of the protected keys,
\* with a value no stored attribute has; for a Place, a list of amenity ids too
UpdateDicts(cls) ==
  {[k \in free \cup prot |-> IF k \in prot THEN 9 ELSE 2] :
     free \in SUBSET {Field[cls], "x"}, prot \in {{}, Protected[cls]}}

UpdateBodies ==
  [cls \in Classes |->
     NonMappings \cup Mappings(UpdateDicts(cls))
       \cup (IF cls = "Place" THEN MappingsWithIds(UpdateDicts(cls)) ELSE {})]

\* ------------------------------------------------- storage and model classes
Key(cls, id) == <<cls, id>>

\* storage.get(cls, id): the object, when there is one
Exists(cls, id) == Key(cls, id) \in DOMAIN objects
storage_get(cls, id) == objects[Key(cls, id)]

\* storage.all(cls): the ids of the class, in the iteration order
RECURSIVE SortedIds(_)
SortedIds(S) ==
  IF S = {} THEN <<>>
  ELSE LET m == CHOOSE x \in S : \A y \in S : x <= y
       IN <<m>> \o SortedIds(S \ {m})

storage_all(cls) == SortedIds({k[2] : k \in {j \in DOMAIN objects : j[1] = cls}})

\* storage.count(cls)
storage_count(cls) == Cardinality({k \in DOMAIN objects : k[1] = cls})

\* cls(**data_dict): a new id and timestamps, the client's attributes carried;
\* a Place has its list of amenity ids and its relationship collection
BaseModel(cls, id, body) ==
  [attrs |-> [k \in (DOMAIN body.kv) \cup {"id", "created_at", "updated_at", "__class__"} |->
                CASE k = "id" -> id
                  [] k = "created_at" -> 1
                  [] k = "updated_at" -> 1
                  [] k = "__class__" -> ClassCode(cls)
                  [] OTHER -> body.kv[k]],
   amenity_ids |-> IF body.hasIds THEN body.ids ELSE <<>>,
   amenities |-> <<>>]

\* obj.to_dict()
to_dict(obj) == obj.attrs

\* storage.new(obj)
storage_new(objs, cls, id, obj) == (Key(cls, id) :> obj) @@ objs

\* storage.delete(obj): removes the object; the rows of the relational join
\* that name a deleted amenity go with it
storage_delete(objs, cls, id) ==
  LET rest == [k \in (DOMAIN objs) \ {Key(cls, id)} |-> objs[k]]
  IN IF cls = "Amenity" /\ HBNB_TYPE_STORAGE = "db"
     THEN [k \in DOMAIN rest |->
             [rest[k] EXCEPT !.amenities = SelectSeq(@, LAMBDA a : a # id)]]
     ELSE rest

\* obj.save(): updated_at is refreshed
model_save(obj) == [obj EXCEPT !.attrs = DictSet(@, "updated_at", 2)]

\* ------------------------------------------------------------------ responses
\* jsonify(dict), status
JsonObject(status, dict) ==
  [status |-> status, kind |-> "object", error |-> "", body |-> dict, list |-> <<>>]

\* jsonify(list)
JsonList(list) ==
  [status |-> 200, kind |-> "list", error |-> "", body |-> EmptyDict, list |-> list]

\* jsonify({"error": message}), status
JsonError(status, message) ==
  [status |-> status, kind |-> "error", error |-> message, body |-> EmptyDict, list |-> <<>>]

\* the framework's own 404 page, as without the handler
page_not_found_html ==
  [status |-> 404, kind |-> "html", error |-> "Not Found", body |-> EmptyDict, list |-> <<>>]

\* abort(404), answered by the application's 404 handler
page_not_found == JsonError(404, "Not found")
NotAJSON == JsonError(400, "Not a JSON")
Missing(field) == JsonError(400, "Missing " \o field)

\* an exception no handler catches: the framework's 500 page
ServerError ==
  [status |-> 500, kind |-> "html", error |-> "Internal Server Error",
   body |-> EmptyDict, list |-> <<>>]

\* ------------------------------------------------------- outcome of a handler
\* the repository after the handler, its response, its storage calls
Outcome(objs, crt, del, response, storageCalls) ==
  [objects |-> objs, created |-> crt, deleted |-> del,
   resp |-> response, calls |-> storageCalls]

\* a handler that returns or aborts without touching the repository
Only(response) == Outcome(objects, created, deleted, response, <<>>)

\* a storage call made before the rest of the handler
Called(call, out) == [out EXCEPT !.calls = <<call>> \o @]

\* storage.get(cls, id) made before the rest of the handler
Got(cls, out) == Called("get " \o cls, out)

\* [obj.to_dict() for obj in (the objects of cls with these ids)]
DictsOf(cls, ids) == [i \in 1..Len(ids) |-> to_dict(storage_get(cls, ids[i]))]

\* parent.children: the objects of cls whose foreign key names the parent
Children(cls, fk, parent_id) ==
  SelectSeq(storage_all(cls), LAMBDA i : DictGet(storage_get(cls, i).attrs, fk) = parent_id)

\* an assignment of the keys the object already has, and of no other
SetAttrs_schemaOnly(obj, body, ignored_keys) ==
  [attrs |-> [k \in DOMAIN obj.attrs |->
                IF k \in (DOMAIN body.kv) \ ignored_keys THEN body.kv[k] ELSE obj.attrs[k]],
   amenity_ids |-> IF body.hasIds /\ "amenity_ids" \notin ignored_keys
                   THEN body.ids ELSE obj.amenity_ids,
   amenities |-> obj.amenities]

\* for key, value in data_dict.items(): if key not in ignored_keys: setattr(...)
SetAttrs(obj, body, ignored_keys) ==
  [attrs |-> [k \in (DOMAIN obj.attrs) \cup ((DOMAIN body.kv) \ ignored_keys) |->
                IF k \in (DOMAIN body.kv) \ ignored_keys THEN body.kv[k] ELSE obj.attrs[k]],
   amenity_ids |-> IF body.hasIds /\ "amenity_ids" \notin ignored_keys
                   THEN body.ids ELSE obj.amenity_ids,
   amenities |-> obj.amenities]

\* storage.new(obj); storage.save(); return jsonify(obj.to_dict()), 201
Created(cls, body) ==
  LET id == created[cls] + 1
      new == BaseModel(cls, id, body)
  IN Outcome(storage_new(objects, cls, id, new), [created EXCEPT ![cls] = id], deleted,
             JsonObject(201, to_dict(new)), <<"new", "save">>)

\* storage.delete(obj); storage.save(); return jsonify({})
Deleted(cls, id) ==
  Outcome(storage_delete(objects, cls, id), created, [deleted EXCEPT ![cls] = @ + 1],
          JsonObject(200, EmptyDict), <<"delete", "save">>)

\* obj.save(); return jsonify(obj.to_dict())
Updated(cls, id, body, ignored_keys) ==
  LET obj == model_save(SetAttrs(storage_get(cls, id), body, ignored_keys))
  IN Outcome([objects EXCEPT ![Key(cls, id)] = obj], created, deleted,
             JsonObject(200, to_dict(obj)), <<"save">>)

\* ---------------------------------------------------------- states.py
list_all_states ==
  Called("all State", Only(JsonList(DictsOf("State", storage_all("State")))))

get_a_state(state_id) ==
  Got("State",
    IF Exists("State", state_id) THEN Only(JsonObject(200, to_dict(storage_get("State", state_id))))
    ELSE Only(page_not_found))

delete_a_state(state_id) ==
  Got("State",
    IF Exists("State", state_id) THEN Deleted("State", state_id)
    ELSE Only(page_not_found))

create_state(data_dict) ==
  IF BodyFalsy(data_dict) THEN Only(NotAJSON)
  ELSE IF ~IsMapping(data_dict) THEN Only(ServerError)
  ELSE IF ~Truthy(DictGet(data_dict.kv, "name")) THEN Only(Missing("name"))
  ELSE Created("State", data_dict)

ignored_keys_State == {"id", "created_at", "updated_at", "__class__"}

update_state(state_id, data_dict) ==
  Got("State",
    IF ~Exists("State", state_id) THEN Only(page_not_found)
    ELSE IF BodyFalsy(data_dict) THEN Only(NotAJSON)
    ELSE IF ~IsMapping(data_dict) THEN Only(ServerError)
    ELSE Updated("State", state_id, data_dict, ignored_keys_State))

\* ---------------------------------------------------------- amenities.py
list_all_amenities ==
  Called("all Amenity", Only(JsonList(DictsOf("Amenity", storage_all("Amenity")))))

get_a_amenity(amenity_id) ==
  Got("Amenity",
    IF Exists("Amenity", amenity_id) THEN Only(JsonObject(200, to_dict(storage_get("Amenity", amenity_id))))
    ELSE Only(page_not_found))

delete_a_amenity(amenity_id) ==
  Got("Amenity",
    IF Exists("Amenity", amenity_id) THEN Deleted("Amenity", amenity_id)
    ELSE Only(page_not_found))

create_amenity(data_dict) ==
  IF BodyFalsy(data_dict) THEN Only(NotAJSON)
  ELSE IF ~IsMapping(data_dict) THEN Only(ServerError)
  ELSE IF ~Truthy(DictGet(data_dict.kv, "name")) THEN Only(Missing("name"))
  ELSE Created("Amenity", data_dict)

ignored_keys_Amenity == {"id", "created_at", "updated_at", "__class__"}

update_amenity(amenity_id, data_dict) ==
  Got("Amenity",
    IF ~Exists("Amenity", amenity_id) THEN Only(page_not_found)
    ELSE IF BodyFalsy(data_dict) THEN Only(NotAJSON)
    ELSE IF ~IsMapping(data_dict) THEN Only(ServerError)
    ELSE Updated("Amenity", amenity_id, data_dict, ignored_keys_Amenity))

\* ---------------------------------------------------------- users.py
list_all_users ==
  Called("all User", Only(JsonList(DictsOf("User", storage_all("User")))))

get_a_user(user_id) ==
  Got("User",
    IF Exists("User", user_id) THEN Only(JsonObject(200, to_dict(storage_get("User", user_id))))
    ELSE Only(page_not_found))

delete_a_user(user_id) ==
  Got("User",
    IF Exists("User", user_id) THEN Deleted("User", user_id)
    ELSE Only(page_not_found))

\* a create that looks for the password before the email
create_user_passwordFirst(data_dict) ==
  IF BodyFalsy(data_dict) THEN Only(NotAJSON)
  ELSE IF ~IsMapping(data_dict) THEN Only(ServerError)
  ELSE IF ~Truthy(DictGet(data_dict.kv, "password")) THEN Only(Missing("password"))
  ELSE IF ~Truthy(DictGet(data_dict.kv, "email")) THEN Only(Missing("email"))
  ELSE Created("User", data_dict)

create_user(data_dict) ==
  IF BodyFalsy(data_dict) THEN Only(NotAJSON)
  ELSE IF ~IsMapping(data_dict) THEN Only(ServerError)
  ELSE IF ~Truthy(DictGet(data_dict.kv, "email")) THEN Only(Missing("email"))
  ELSE IF ~Truthy(DictGet(data_dict.kv, "password")) THEN Only(Missing("password"))
  ELSE Created("User", data_dict)

ignored_keys_User == {"id", "created_at", "updated_at", "__class__", "email"}

\* an update that assigns the keys as it meets them and rejects the payload
\* when it comes to the protected email
update_user_partial(user_id, data_dict) ==
  Got("User",
    IF ~Exists("User", user_id) THEN Only(page_not_found)
    ELSE IF BodyFalsy(data_dict) THEN Only(NotAJSON)
    ELSE IF ~IsMapping(data_dict) THEN Only(ServerError)
    ELSE IF "email" \in DOMAIN data_dict.kv
         THEN [Updated("User", user_id, data_dict, ignored_keys_User) EXCEPT !.resp = NotAJSON]
         ELSE Updated("User", user_id, data_dict, ignored_keys_User))

update_user(user_id, data_dict) ==
  Got("User",
    IF ~Exists("User", user_id) THEN Only(page_not_found)
    ELSE IF BodyFalsy(data_dict) THEN Only(NotAJSON)
    ELSE IF ~IsMapping(data_dict) THEN Only(ServerError)
    ELSE Updated("User", user_id, data_dict, ignored_keys_User))

\* ---------------------------------------------------------- cities.py
list_cities_of_state(state_id) ==
  Got("State",
    IF ~Exists("State", state_id) THEN Only(page_not_found)
    ELSE Only(JsonList(DictsOf("City", Children("City", "state_id", state_id)))))

\* a get that looks the id up among the states
get_a_city_wrongClass(city_id) ==
  Got("State",
    IF Exists("State", city_id) THEN Only(JsonObject(200, to_dict(storage_get("State", city_id))))
    ELSE Only(page_not_found))

get_a_city(city_id) ==
  Got("City",
    IF Exists("City", city_id) THEN Only(JsonObject(200, to_dict(storage_get("City", city_id))))
    ELSE Only(page_not_found))

\* a delete that does not save
delete_a_city_unsaved(city_id) ==
  Got("City",
    IF Exists("City", city_id)
    THEN [Deleted("City", city_id) EXCEPT !.calls = <<"delete">>]
    ELSE Only(page_not_found))

delete_a_city(city_id) ==
  Got("City",
    IF Exists("City", city_id) THEN Deleted("City", city_id)
    ELSE Only(page_not_found))

create_city(state_id, data_dict) ==
  Got("State",
    IF ~Exists("State", state_id) THEN Only(page_not_found)
    ELSE IF BodyFalsy(data_dict) THEN Only(NotAJSON)
    ELSE IF ~IsMapping(data_dict) THEN Only(ServerError)
    ELSE IF ~Truthy(DictGet(data_dict.kv, "name")) THEN Only(Missing("name"))
    ELSE Created("City", [data_dict EXCEPT !.kv = DictSet(@, "state_id", state_id)]))

\* ignored_keys without the foreign key
ignored_keys_City_base == {"id", "created_at", "updated_at", "__class__"}

ignored_keys_City == {"id", "created_at", "updated_at", "__class__", "state_id"}

update_city(city_id, data_dict) ==
  Got("City",
    IF ~Exists("City", city_id) THEN Only(page_not_found)
    ELSE IF BodyFalsy(data_dict) THEN Only(NotAJSON)
    ELSE IF ~IsMapping(data_dict) THEN Only(ServerError)
    ELSE Updated("City", city_id, data_dict, ignored_keys_City))

\* ---------------------------------------------------------- places.py
\* a listing of every place, whatever its city
list_places_of_city_all(city_id) ==
  Got("City",
    IF ~Exists("City", city_id) THEN Only(page_not_found)
    ELSE Only(JsonList(DictsOf("Place", storage_all("Place")))))

list_places_of_city(city_id) ==
  Got("City",
    IF ~Exists("City", city_id) THEN Only(page_not_found)
    ELSE Only(JsonList(DictsOf("Place", Children("Place", "city_id", city_id)))))

get_a_place(place_id) ==
  Got("Place",
    IF Exists("Place", place_id) THEN Only(JsonObject(200, to_dict(storage_get("Place", place_id))))
    ELSE Only(page_not_found))

\* a delete that answers without removing the object
delete_a_place_kept(place_id) ==
  Got("Place",
    IF Exists("Place", place_id) THEN Only(JsonObject(200, EmptyDict))
    ELSE Only(page_not_found))

delete_a_place(place_id) ==
  Got("Place",
    IF Exists("Place", place_id) THEN Deleted("Place", place_id)
    ELSE Only(page_not_found))

\* a create that does not look the user up
create_place_anyUser(city_id, data_dict) ==
  Got("City",
    IF ~Exists("City", city_id) THEN Only(page_not_found)
    ELSE IF BodyFalsy(data_dict) THEN Only(NotAJSON)
    ELSE IF ~IsMapping(data_dict) THEN Only(ServerError)
    ELSE IF ~Truthy(DictGet(data_dict.kv, "user_id")) THEN Only(Missing("user_id"))
    ELSE IF ~Truthy(DictGet(data_dict.kv, "name")) THEN Only(Missing("name"))
    ELSE Created("Place", [data_dict EXCEPT !.kv = DictSet(@, "city_id", city_id)]))

\* a create that looks for the name before it looks the user up
create_place_nameFirst(city_id, data_dict) ==
  Got("City",
    IF ~Exists("City", city_id) THEN Only(page_not_found)
    ELSE IF BodyFalsy(data_dict) THEN Only(NotAJSON)
    ELSE IF ~IsMapping(data_dict) THEN Only(ServerError)
    ELSE IF ~Truthy(DictGet(data_dict.kv, "user_id")) THEN Only(Missing("user_id"))
    ELSE IF ~Truthy(DictGet(data_dict.kv, "name")) THEN Only(Missing("name"))
    ELSE Got("User",
         IF ~Exists("User", data_dict.kv["user_id"]) THEN Only(page_not_found)
         ELSE Created("Place", [data_dict EXCEPT !.kv = DictSet(@, "city_id", city_id)])))

create_place(city_id, data_dict) ==
  Got("City",
    IF ~Exists("City", city_id) THEN Only(page_not_found)
    ELSE IF BodyFalsy(data_dict) THEN Only(NotAJSON)
    ELSE IF ~IsMapping(data_dict) THEN Only(ServerError)
    ELSE IF ~Truthy(DictGet(data_dict.kv, "user_id")) THEN Only(Missing("user_id"))
    ELSE Got("User",
         IF ~Exists("User", data_dict.kv["user_id"]) THEN Only(page_not_found)
         ELSE IF ~Truthy(DictGet(data_dict.kv, "name")) THEN Only(Missing("name"))
         ELSE Created("Place", [data_dict EXCEPT !.kv = DictSet(@, "city_id", city_id)])))

ignored_keys_Place == {"id", "created_at", "updated_at", "__class__", "user_id", "city_id"}

update_place(place_id, data_dict) ==
  Got("Place",
    IF ~Exists("Place", place_id) THEN Only(page_not_found)
    ELSE IF BodyFalsy(data_dict) THEN Only(NotAJSON)
    ELSE IF ~IsMapping(data_dict) THEN Only(ServerError)
    ELSE Updated("Place", place_id, data_dict, ignored_keys_Place))

\* ---------------------------------------------------------- places_reviews.py
list_reviews_of_place(place_id) ==
  Got("Place",
    IF ~Exists("Place", place_id) THEN Only(page_not_found)
    ELSE Only(JsonList(DictsOf("Review", Children("Review", "place_id", place_id)))))

get_a_review(review_id) ==
  Got("Review",
    IF Exists("Review", review_id) THEN Only(JsonObject(200, to_dict(storage_get("Review", review_id))))
    ELSE Only(page_not_found))

delete_a_review(review_id) ==
  Got("Review",
    IF Exists("Review", review_id) THEN Deleted("Review", review_id)
    ELSE Only(page_not_found))

\* a create that keeps the client's place_id
create_review_clientKey(place_id, data_dict) ==
  Got("Place",
    IF ~Exists("Place", place_id) THEN Only(page_not_found)
    ELSE IF BodyFalsy(data_dict) THEN Only(NotAJSON)
    ELSE IF ~IsMapping(data_dict) THEN Only(ServerError)
    ELSE IF ~Truthy(DictGet(data_dict.kv, "user_id")) THEN Only(Missing("user_id"))
    ELSE Got("User",
         IF ~Exists("User", data_dict.kv["user_id"]) THEN Only(page_not_found)
         ELSE IF ~Truthy(DictGet(data_dict.kv, "text")) THEN Only(Missing("text"))
         ELSE Created("Review", data_dict)))

create_review(place_id, data_dict) ==
  Got("Place",
    IF ~Exists("Place", place_id) THEN Only(page_not_found)
    ELSE IF BodyFalsy(data_dict) THEN Only(NotAJSON)
    ELSE IF ~IsMapping(data_dict) THEN Only(ServerError)
    ELSE IF ~Truthy(DictGet(data_dict.kv, "user_id")) THEN Only(Missing("user_id"))
    ELSE Got("User",
         IF ~Exists("User", data_dict.kv["user_id"]) THEN Only(page_not_found)
         ELSE IF ~Truthy(DictGet(data_dict.kv, "text")) THEN Only(Missing("text"))
         ELSE Created("Review", [data_dict EXCEPT !.kv = DictSet(@, "place_id", place_id)])))

ignored_keys_Review == {"id", "created_at", "updated_at", "__class__", "place_id", "user_id"}

update_review(review_id, data_dict) ==
  Got("Review",
    IF ~Exists("Review", review_id) THEN Only(page_not_found)
    ELSE IF BodyFalsy(data_dict) THEN Only(NotAJSON)
    ELSE IF ~IsMapping(data_dict) THEN Only(ServerError)
    ELSE Updated("Review", review_id, data_dict, ignored_keys_Review))

\* ---------------------------------------------------------- places_amenities.py
\* a listing that, over the embedded id list, serializes the first id only
get_place_amenities_firstOnly(place_id) ==
  Got("Place",
    IF ~Exists("Place", place_id) THEN Only(page_not_found)
    ELSE LET place == storage_get("Place", place_id)
         IN IF HBNB_TYPE_STORAGE = "db"
            THEN Only(JsonList(DictsOf("Amenity", place.amenities)))
            ELSE Only(JsonList(DictsOf("Amenity",
                   IF place.amenity_ids = <<>> THEN <<>> ELSE <<Head(place.amenity_ids)>>))))

\* the storage.get(Amenity, a_id) calls of the list comprehension, which
\* stops at the first id that resolves to None
Resolved(ids) ==
  LET stop == IF \E i \in 1..Len(ids) : ~Exists("Amenity", ids[i])
              THEN CHOOSE i \in 1..Len(ids) :
                     ~Exists("Amenity", ids[i]) /\ \A j \in 1..(i - 1) : Exists("Amenity", ids[j])
              ELSE Len(ids)
  IN [i \in 1..stop |-> "get Amenity"]

get_place_amenities(place_id) ==
  Got("Place",
    IF ~Exists("Place", place_id) THEN Only(page_not_found)
    ELSE LET place == storage_get("Place", place_id)
         IN IF HBNB_TYPE_STORAGE = "db"
            THEN Only(JsonList(DictsOf("Amenity", place.amenities)))
            ELSE IF \E i \in 1..Len(place.amenity_ids) : ~Exists("Amenity", place.amenity_ids[i])
                 THEN [Only(ServerError) EXCEPT !.calls = Resolved(place.amenity_ids)]
                 ELSE [Only(JsonList(DictsOf("Amenity", place.amenity_ids)))
                         EXCEPT !.calls = Resolved(place.amenity_ids)])

\* an unlink that answers 200 for an amenity that is not linked
delete_place_amenity_lenient(place_id, amenity_id) ==
  Got("Place", Got("Amenity",
    IF ~Exists("Place", place_id) \/ ~Exists("Amenity", amenity_id) THEN Only(page_not_found)
    ELSE Only(JsonObject(200, EmptyDict))))

delete_place_amenity(place_id, amenity_id) ==
  Got("Place", Got("Amenity",
    IF ~Exists("Place", place_id) \/ ~Exists("Amenity", amenity_id) THEN Only(page_not_found)
    ELSE LET place == storage_get("Place", place_id)
         IN IF HBNB_TYPE_STORAGE = "db"
            THEN IF ~InList(amenity_id, place.amenities) THEN Only(page_not_found)
                 ELSE Outcome([objects EXCEPT ![Key("Place", place_id)].amenities =
                                 ListRemove(@, amenity_id)],
                              created, deleted, JsonObject(200, EmptyDict), <<"remove", "save">>)
            ELSE IF ~InList(amenity_id, place.amenity_ids) THEN Only(page_not_found)
                 ELSE Outcome([objects EXCEPT ![Key("Place", place_id)].amenity_ids =
                                 ListRemove(@, amenity_id)],
                              created, deleted, JsonObject(200, EmptyDict), <<"remove", "save">>)))

\* a link that appends without looking for the amenity first
link_place_amenity_unchecked(place_id, amenity_id) ==
  Got("Place", Got("Amenity",
    IF ~Exists("Place", place_id) \/ ~Exists("Amenity", amenity_id) THEN Only(page_not_found)
    ELSE LET amenity == storage_get("Amenity", amenity_id)
         IN IF HBNB_TYPE_STORAGE = "db"
            THEN Outcome([objects EXCEPT ![Key("Place", place_id)].amenities =
                            Append(@, amenity_id)],
                         created, deleted, JsonObject(201, to_dict(amenity)), <<"append", "save">>)
            ELSE Outcome([objects EXCEPT ![Key("Place", place_id)].amenity_ids =
                            Append(@, amenity_id)],
                         created, deleted, JsonObject(201, to_dict(amenity)), <<"append", "save">>)))

link_place_amenity(place_id, amenity_id) ==
  Got("Place", Got("Amenity",
    IF ~Exists("Place", place_id) \/ ~Exists("Amenity", amenity_id) THEN Only(page_not_found)
    ELSE LET place == storage_get("Place", place_id)
             amenity == storage_get("Amenity", amenity_id)
         IN IF HBNB_TYPE_STORAGE = "db"
            THEN IF InList(amenity_id, place.amenities)
                 THEN Only(JsonObject(200, to_dict(amenity)))
                 ELSE Outcome([objects EXCEPT ![Key("Place", place_id)].amenities =
                                 Append(@, amenity_id)],
                              created, deleted, JsonObject(201, to_dict(amenity)), <<"append", "save">>)
            ELSE IF InList(amenity_id, place.amenity_ids)
                 THEN Only(JsonObject(200, to_dict(amenity)))
                 ELSE Outcome([objects EXCEPT ![Key("Place", place_id)].amenity_ids =
                                 Append(@, amenity_id)],
                              created, deleted, JsonObject(201, to_dict(amenity)), <<"append", "save">>)))

\* ---------------------------------------------------------- index.py
\* a status route that answers with an empty object
status_empty == Only(JsonObject(200, EmptyDict))

status == Only(JsonObject(200, [status |-> "OK"]))

\* the counts of states and cities taken from each other's class
count_swapped ==
  [Only(JsonObject(200, [amenities |-> storage_count("Amenity"),
                        cities |-> storage_count("State"),
                        places |-> storage_count("Place"),
                        reviews |-> storage_count("Review"),
                        states |-> storage_count("City"),
                        users |-> storage_count("User")]))
     EXCEPT !.calls = <<"count Amenity", "count State", "count Place", "count Review", "count City", "count User">>]

count ==
  [Only(JsonObject(200, [amenities |-> storage_count("Amenity"),
                        cities |-> storage_count("City"),
                        places |-> storage_count("Place"),
                        reviews |-> storage_count("Review"),
                        states |-> storage_count("State"),
                        users |-> storage_count("User")]))
     EXCEPT !.calls = <<"count Amenity", "count City", "count Place", "count Review", "count State", "count User">>]

\* ---------------------------------------------------------- app.py
NoRequest == [op |-> "none", id |-> 0, id2 |-> 0, body |-> NoneBody]
NoResponse == [status |-> 0, kind |-> "none", error |-> "", body |-> EmptyDict, list |-> <<>>]

\* the objects that have been updated (updated_at refreshed)
NumUpdated(objs) == Cardinality({k \in DOMAIN objs : objs[k].attrs["updated_at"] # 1})

\* one request: the handler runs and its outcome becomes the state; the
\* teardown follows before the next request.  A request that creates an
\* object is served while its class has had fewer than max objects.
ServeUpTo(max, op, id, id2, body, out) ==
  /\ pc = "idle"
  /\ \A c \in Classes : out.created[c] > created[c] => out.created[c] <= max
  /\ NumUpdated(out.objects) <= MaxUpdated
  /\ req' = [op |-> op, id |-> id, id2 |-> id2, body |-> body]
  /\ objects' = out.objects
  /\ created' = out.created
  /\ deleted' = out.deleted
  /\ resp' = out.resp
  /\ calls' = out.calls
  /\ pc' = "teardown"
  /\ UNCHANGED <<HBNB_TYPE_STORAGE, threads>>

Serve(op, id, id2, body, out) == ServeUpTo(MaxObjs, op, id, id2, body, out)

\* a teardown that releases the session after a served request only, and
\* not after one that was aborted or rejected
close_db_onSuccess ==
  /\ pc = "teardown"
  /\ resp.status < 400
  /\ pc' = "idle"
  /\ req' = NoRequest
  /\ resp' = NoResponse
  /\ calls' = <<>>
  /\ UNCHANGED <<HBNB_TYPE_STORAGE, objects, created, deleted, threads>>

\* teardown_appcontext: storage.close() after the handler, whatever it did;
\* the response has been sent
close_db ==
  /\ pc = "teardown"
  /\ pc' = "idle"
  /\ req' = NoRequest
  /\ resp' = NoResponse
  /\ calls' = <<>>
  /\ UNCHANGED <<HBNB_TYPE_STORAGE, objects, created, deleted, threads>>

\* ------------------------------------------- link_place_amenity, by threads
\* app.run(host, port, threaded=True): each request is handled by a thread of
\* its own, and the threads share the storage and its objects.  A thread
\* serving a link request is at one of the statements of the handler.
Threads == {"t1", "t2"}

Waiting == [pc |-> "idle", place_id |-> 0, amenity_id |-> 0, status |-> 0]

\* place = storage.get(Place, place_id); amenity = storage.get(Amenity, ...);
\* if not place or not amenity: abort(404)
link_lookup(t) ==
  /\ threads[t].pc = "idle"
  /\ \E place_id \in PathIds, amenity_id \in PathIds :
       threads' = [threads EXCEPT ![t] =
                     IF ~Exists("Place", place_id) \/ ~Exists("Amenity", amenity_id)
                     THEN [pc |-> "done", place_id |-> place_id, amenity_id |-> amenity_id,
                           status |-> 404]
                     ELSE [pc |-> "check", place_id |-> place_id, amenity_id |-> amenity_id,
                           status |-> 0]]
  /\ UNCHANGED <<HBNB_TYPE_STORAGE, objects, created, deleted, req, resp, calls, pc>>

\* if amenity in place.amenities / if amenity_id in place.amenity_ids:
\* return ..., 200
link_check(t) ==
  /\ threads[t].pc = "check"
  /\ LET place == storage_get("Place", threads[t].place_id)
         linked == IF HBNB_TYPE_STORAGE = "db"
                   THEN InList(threads[t].amenity_id, place.amenities)
                   ELSE InList(threads[t].amenity_id, place.amenity_ids)
     IN threads' = [threads EXCEPT ![t] =
                      IF linked THEN [@ EXCEPT !.pc = "done", !.status = 200]
                      ELSE [@ EXCEPT !.pc = "append"]]
  /\ UNCHANGED <<HBNB_TYPE_STORAGE, objects, created, deleted, req, resp, calls, pc>>

\* place.amenities.append(amenity) / place.amenity_ids.append(amenity_id)
link_append(t) ==
  /\ threads[t].pc = "append"
  /\ objects' = IF HBNB_TYPE_STORAGE = "db"
                THEN [objects EXCEPT ![Key("Place", threads[t].place_id)].amenities =
                        Append(@, threads[t].amenity_id)]
                ELSE [objects EXCEPT ![Key("Place", threads[t].place_id)].amenity_ids =
                        Append(@, threads[t].amenity_id)]
  /\ threads' = [threads EXCEPT ![t] = [@ EXCEPT !.pc = "save"]]
  /\ UNCHANGED <<HBNB_TYPE_STORAGE, created, deleted, req, resp, calls, pc>>

\* storage.save(); return make_response(jsonify(amenity.to_dict()), 201)
link_save(t) ==
  /\ threads[t].pc = "save"
  /\ threads' = [threads EXCEPT ![t] = [@ EXCEPT !.pc = "done", !.status = 201]]
  /\ UNCHANGED <<HBNB_TYPE_STORAGE, objects, created, deleted, req, resp, calls, pc>>

\* the teardown of the thread's request: storage.close(); the thread is free
\* for its next request
link_close(t) ==
  /\ threads[t].pc = "done"
  /\ threads' = [threads EXCEPT ![t] = Waiting]
  /\ UNCHANGED <<HBNB_TYPE_STORAGE, objects, created, deleted, req, resp, calls, pc>>

\* ---------------------------------------------------------------- the system
Init ==
  /\ HBNB_TYPE_STORAGE \in {"db", "file"}
  /\ objects = [k \in {} |-> 0]
  /\ created = [c \in Classes |-> 0]
  /\ deleted = [c \in Classes |-> 0]
  /\ req = NoRequest
  /\ resp = NoResponse
  /\ calls = <<>>
  /\ pc = "idle"
  /\ threads = [t \in Threads |-> Waiting]

ListAllStates ==
  Serve("list_all_states", 0, 0, NoneBody, list_all_states)

GetAState ==
  \E id \in PathIds : Serve("get_a_state", id, 0, NoneBody, get_a_state(id))

DeleteAState ==
  \E id \in PathIds : Serve("delete_a_state", id, 0, NoneBody, delete_a_state(id))

CreateStateUpTo(max) ==
  \E body \in CreateBodies["State"] : ServeUpTo(max, "create_state", 0, 0, body, create_state(body))

CreateState == CreateStateUpTo(MaxObjs)

UpdateState ==
  \E id \in PathIds, body \in UpdateBodies["State"] :
    Serve("update_state", id, 0, body, update_state(id, body))

ListAllAmenities ==
  Serve("list_all_amenities", 0, 0, NoneBody, list_all_amenities)

GetAAmenity ==
  \E id \in PathIds : Serve("get_a_amenity", id, 0, NoneBody, get_a_amenity(id))

DeleteAAmenity ==
  \E id \in PathIds : Serve("delete_a_amenity", id, 0, NoneBody, delete_a_amenity(id))

CreateAmenityUpTo(max) ==
  \E body \in CreateBodies["Amenity"] : ServeUpTo(max, "create_amenity", 0, 0, body, create_amenity(body))

CreateAmenity == CreateAmenityUpTo(MaxObjs)

UpdateAmenity ==
  \E id \in PathIds, body \in UpdateBodies["Amenity"] :
    Serve("update_amenity", id, 0, body, update_amenity(id, body))

ListAllUsers ==
  Serve("list_all_users", 0, 0, NoneBody, list_all_users)

GetAUser ==
  \E id \in PathIds : Serve("get_a_user", id, 0, NoneBody, get_a_user(id))

DeleteAUser ==
  \E id \in PathIds : Serve("delete_a_user", id, 0, NoneBody, delete_a_user(id))

CreateUser ==
  \E body \in CreateBodies["User"] : Serve("create_user", 0, 0, body, create_user(body))

UpdateUser ==
  \E id \in PathIds, body \in UpdateBodies["User"] :
    Serve("update_user", id, 0, body, update_user(id, body))

ListCitiesOfState ==
  \E id \in PathIds : Serve("list_cities_of_state", id, 0, NoneBody, list_cities_of_state(id))

GetACity ==
  \E id \in PathIds : Serve("get_a_city", id, 0, NoneBody, get_a_city(id))

DeleteACity ==
  \E id \in PathIds : Serve("delete_a_city", id, 0, NoneBody, delete_a_city(id))

CreateCityUpTo(max) ==
  \E id \in PathIds, body \in CreateBodies["City"] :
    ServeUpTo(max, "create_city", id, 0, body, create_city(id, body))

CreateCity == CreateCityUpTo(MaxObjs)

UpdateCity ==
  \E id \in PathIds, body \in UpdateBodies["City"] :
    Serve("update_city", id, 0, body, update_city(id, body))

ListPlacesOfCity ==
  \E id \in PathIds : Serve("list_places_of_city", id, 0, NoneBody, list_places_of_city(id))

GetAPlace ==
  \E id \in PathIds : Serve("get_a_place", id, 0, NoneBody, get_a_place(id))

DeleteAPlace ==
  \E id \in PathIds : Serve("delete_a_place", id, 0, NoneBody, delete_a_place(id))

CreatePlaceUpTo(max) ==
  \E id \in PathIds, body \in CreateBodies["Place"] :
    ServeUpTo(max, "create_place", id, 0, body, create_place(id, body))

CreatePlace == CreatePlaceUpTo(MaxObjs)

UpdatePlace ==
  \E id \in PathIds, body \in UpdateBodies["Place"] :
    Serve("update_place", id, 0, body, update_place(id, body))

ListReviewsOfPlace ==
  \E id \in PathIds : Serve("list_reviews_of_place", id, 0, NoneBody, list_reviews_of_place(id))

GetAReview ==
  \E id \in PathIds : Serve("get_a_review", id, 0, NoneBody, get_a_review(id))

DeleteAReview ==
  \E id \in PathIds : Serve("delete_a_review", id, 0, NoneBody, delete_a_review(id))

CreateReviewUpTo(max) ==
  \E id \in PathIds, body \in CreateBodies["Review"] :
    ServeUpTo(max, "create_review", id, 0, body, create_review(id, body))

CreateReview == CreateReviewUpTo(MaxObjs)

UpdateReview ==
  \E id \in PathIds, body \in UpdateBodies["Review"] :
    Serve("update_review", id, 0, body, update_review(id, body))

GetPlaceAmenities ==
  \E id \in PathIds : Serve("get_place_amenities", id, 0, NoneBody, get_place_amenities(id))

DeletePlaceAmenity ==
  \E id \in PathIds, id2 \in PathIds :
    Serve("delete_place_amenity", id, id2, NoneBody, delete_place_amenity(id, id2))

LinkPlaceAmenity ==
  \E id \in PathIds, id2 \in PathIds :
    Serve("link_place_amenity", id, id2, NoneBody, link_place_amenity(id, id2))

Status ==
  Serve("status", 0, 0, NoneBody, status)

Count ==
  Serve("count", 0, 0, NoneBody, count)

\* a request for a URL no route matches: the framework raises NotFound and
\* the application's 404 handler answers
PageNotFound ==
  Serve("page_not_found", 0, 0, NoneBody, Only(page_not_found))

Next ==
  \/ close_db
  \/ ListAllStates
  \/ GetAState
  \/ DeleteAState
  \/ CreateState
  \/ UpdateState
  \/ ListAllAmenities
  \/ GetAAmenity
  \/ DeleteAAmenity
  \/ CreateAmenity
  \/ UpdateAmenity
  \/ ListAllUsers
  \/ GetAUser
  \/ DeleteAUser
  \/ CreateUser
  \/ UpdateUser
  \/ ListCitiesOfState
  \/ GetACity
  \/ DeleteACity
  \/ CreateCity
  \/ UpdateCity
  \/ ListPlacesOfCity
  \/ GetAPlace
  \/ DeleteAPlace
  \/ CreatePlace
  \/ UpdatePlace
  \/ ListReviewsOfPlace
  \/ GetAReview
  \/ DeleteAReview
  \/ CreateReview
  \/ UpdateReview
  \/ GetPlaceAmenities
  \/ DeletePlaceAmenity
  \/ LinkPlaceAmenity
  \/ Status
  \/ Count
  \/ PageNotFound

Spec == Init /\ [][Next]_vars

\* the place-amenity routes, with the requests that build and change their
\* places and amenities
NextAssoc ==
  \/ close_db
  \/ CreateState
  \/ CreateCity
  \/ CreateUser
  \/ CreatePlace
  \/ CreateAmenity
  \/ UpdatePlace
  \/ DeleteAPlace
  \/ DeleteAAmenity
  \/ GetPlaceAmenities
  \/ LinkPlaceAmenity
  \/ DeletePlaceAmenity

SpecAssoc == Init /\ [][NextAssoc]_vars

\* create, read and delete of the six resources, and the index routes
NextCrud ==
  \/ close_db
  \/ ListAllStates \/ GetAState \/ DeleteAState \/ CreateState
  \/ ListAllAmenities \/ GetAAmenity \/ DeleteAAmenity \/ CreateAmenity
  \/ ListAllUsers \/ GetAUser \/ DeleteAUser \/ CreateUser
  \/ ListCitiesOfState \/ GetACity \/ DeleteACity \/ CreateCity
  \/ ListPlacesOfCity \/ GetAPlace \/ DeleteAPlace \/ CreatePlace
  \/ ListReviewsOfPlace \/ GetAReview \/ DeleteAReview \/ CreateReview
  \/ Status \/ Count

SpecCrud == Init /\ [][NextCrud]_vars

\* the same requests, with the framework's guarantee that the teardown
\* functions of the application context run once the handler has returned
\* or raised
SpecTeardown == Init /\ [][NextCrud]_vars /\ WF_vars(close_db)

\* create, update and read of the six resources
NextUpdate ==
  \/ close_db
  \/ CreateState \/ UpdateState \/ GetAState
  \/ CreateAmenity \/ UpdateAmenity \/ GetAAmenity
  \/ CreateUser \/ UpdateUser \/ GetAUser
  \/ CreateCity \/ UpdateCity \/ GetACity
  \/ CreatePlace \/ UpdatePlace \/ GetAPlace
  \/ CreateReview \/ UpdateReview \/ GetAReview

SpecUpdate == Init /\ [][NextUpdate]_vars

\* the place-amenity routes alone, over places and amenities that are
\* created and then neither updated nor deleted
NextLink ==
  \/ close_db
  \/ CreateState
  \/ CreateCity
  \/ CreateUser
  \/ CreatePlaceUpTo(MaxSiblings)
  \/ CreateAmenityUpTo(MaxSiblings)
  \/ GetPlaceAmenities
  \/ LinkPlaceAmenity
  \/ DeletePlaceAmenity

SpecLink == Init /\ [][NextLink]_vars

\* parents and children: states, cities, places and reviews are created and
\* deleted, and the children of a parent are listed
NextChildren ==
  \/ close_db
  \/ CreateStateUpTo(MaxSiblings)
  \/ CreateCityUpTo(MaxSiblings)
  \/ CreateUser
  \/ CreatePlaceUpTo(MaxSiblings)
  \/ CreateReview
  \/ DeleteAState
  \/ DeleteACity
  \/ DeleteAPlace
  \/ DeleteAReview
  \/ ListCitiesOfState
  \/ ListPlacesOfCity
  \/ ListReviewsOfPlace

SpecChildren == Init /\ [][NextChildren]_vars

\* objects come and go, and requests name them: create and delete of the six
\* resources, get, list of children, the place-amenity routes, and requests
\* for URLs that no route matches
NextMissing ==
  \/ close_db
  \/ PageNotFound
  \/ CreateState \/ GetAState \/ DeleteAState
  \/ CreateAmenity \/ GetAAmenity \/ DeleteAAmenity
  \/ CreateUser \/ GetAUser \/ DeleteAUser
  \/ CreateCity \/ GetACity \/ DeleteACity \/ ListCitiesOfState
  \/ CreatePlace \/ GetAPlace \/ DeleteAPlace \/ ListPlacesOfCity
  \/ CreateReview \/ GetAReview \/ DeleteAReview \/ ListReviewsOfPlace
  \/ GetPlaceAmenities \/ LinkPlaceAmenity \/ DeletePlaceAmenity

SpecMissing == Init /\ [][NextMissing]_vars

\* link requests served by threads, statement by statement, over places and
\* amenities created by requests served one at a time
LinkLookup == \E t \in Threads : link_lookup(t)
LinkCheck == \E t \in Threads : link_check(t)
LinkAppend == \E t \in Threads : link_append(t)
LinkSave == \E t \in Threads : link_save(t)
LinkClose == \E t \in Threads : link_close(t)

NextThreads ==
  \/ close_db
  \/ CreateState
  \/ CreateCity
  \/ CreateUser
  \/ CreatePlace
  \/ CreateAmenity
  \/ LinkLookup
  \/ LinkCheck
  \/ LinkAppend
  \/ LinkSave
  \/ LinkClose

\* the threads share the objects of the file storage, and with them the
\* amenity_ids list of a place
InitFile == Init /\ HBNB_TYPE_STORAGE = "file"

SpecThreads == InitFile /\ [][NextThreads]_vars

\* ===================================================================== claims
\* the amenity association of a place, in the representation of the mode
Association(place) ==
  IF HBNB_TYPE_STORAGE = "db" THEN place.amenities ELSE place.amenity_ids

Places == {k \in DOMAIN objects : k[1] = "Place"}

\* C1: in every reachable state the amenity association of every Place holds
\* no amenity more than once, in the embedded id list as in the relational
\* collection.
C1_NoDuplicateAmenity ==
  \A k \in Places :
    \A i, j \in 1..Len(Association(objects[k])) :
      Association(objects[k])[i] = Association(objects[k])[j] => i = j

\* C2: for an existing Place P and an existing Amenity X not yet associated
\* with P, in either mode, a link request returns 201 with X's serialization,
\* the same request again returns 200 with X's serialization, and after both
\* P's amenity list holds exactly one entry for X.
C2_LinkTwice ==
  [][\A P, A \in PathIds :
       (/\ req' = [op |-> "link_place_amenity", id |-> P, id2 |-> A, body |-> NoneBody]
        /\ Exists("Place", P) /\ Exists("Amenity", A)
        /\ ~InList(A, Association(storage_get("Place", P))))
       => LET X == to_dict(storage_get("Amenity", A))
              second == link_place_amenity(P, A)'
          IN /\ resp' = JsonObject(201, X)
             /\ second.resp = JsonObject(200, X)
             /\ ListCount(Association(second.objects[Key("Place", P)]), A) = 1
    ]_vars

C2_Witness ==
  /\ req.op = "link_place_amenity"
  /\ resp.status = 201
  /\ link_place_amenity(req.id, req.id2).resp.status = 200
  /\ ListCount(Association(storage_get("Place", req.id)), req.id2) = 1

\* C3: for an existing Place P and an existing Amenity X that is not
\* associated with P, in either mode, an unlink request returns 404 and leaves
\* P's amenity set and the rest of the repository unchanged.
C3_UnlinkNonMember ==
  [][(/\ req'.op = "delete_place_amenity"
      /\ Exists("Place", req'.id) /\ Exists("Amenity", req'.id2)
      /\ ~InList(req'.id2, Association(storage_get("Place", req'.id))))
     => /\ resp' = page_not_found
        /\ objects' = objects
    ]_vars

C3_Witness ==
  /\ req.op = "delete_place_amenity"
  /\ Exists("Place", req.id) /\ Exists("Amenity", req.id2)
  /\ ~InList(req.id2, Association(storage_get("Place", req.id)))
  /\ resp.status = 404

\* ------------------------------------------------ requests, by resource type
CreateOps ==
  [create_state |-> "State", create_amenity |-> "Amenity", create_user |-> "User",
   create_city |-> "City", create_place |-> "Place", create_review |-> "Review"]

UpdateOps ==
  [update_state |-> "State", update_amenity |-> "Amenity", update_user |-> "User",
   update_city |-> "City", update_place |-> "Place", update_review |-> "Review"]

DeleteOps ==
  [delete_a_state |-> "State", delete_a_amenity |-> "Amenity", delete_a_user |-> "User",
   delete_a_city |-> "City", delete_a_place |-> "Place", delete_a_review |-> "Review"]

\* the required fields of a create, per type, in the declared order
Required ==
  [State |-> <<"name">>, Amenity |-> <<"name">>, City |-> <<"name">>,
   User |-> <<"email", "password">>, Place |-> <<"user_id", "name">>,
   Review |-> <<"user_id", "text">>]

\* the parent a child is created under, and the child's foreign key
ParentOf == [City |-> "State", Place |-> "City", Review |-> "Place"]
ForeignKey == [City |-> "state_id", Place |-> "city_id", Review |-> "place_id"]

\* the path parent of a create request exists (a top-level type has none)
ParentExists(cls, id) == cls \in DOMAIN ParentOf => Exists(ParentOf[cls], id)

\* the get and the delete request of a type
GetOf(cls, id) ==
  CASE cls = "State" -> get_a_state(id) [] cls = "Amenity" -> get_a_amenity(id)
    [] cls = "User" -> get_a_user(id) [] cls = "City" -> get_a_city(id)
    [] cls = "Place" -> get_a_place(id) [] cls = "Review" -> get_a_review(id)

DeleteOf(cls, id) ==
  CASE cls = "State" -> delete_a_state(id) [] cls = "Amenity" -> delete_a_amenity(id)
    [] cls = "User" -> delete_a_user(id) [] cls = "City" -> delete_a_city(id)
    [] cls = "Place" -> delete_a_place(id) [] cls = "Review" -> delete_a_review(id)

MissingFields(cls, body) ==
  {Required[cls][i] : i \in {j \in 1..Len(Required[cls]) : Required[cls][j] \notin DOMAIN body.kv}}

\* C4: for every type, a create request (under an existing parent, every
\* supplied field set, a supplied user reference resolving) whose payload is a
\* JSON object, whatever its keys, in which a required field is absent gets
\* 400 with {"error": "Missing <field>"} naming an absent field, and no object
\* is added.
C4_MissingField ==
  [][\A op \in DOMAIN CreateOps :
       (/\ req'.op = op
        /\ IsMapping(req'.body)
        /\ ParentExists(CreateOps[op], req'.id)
        /\ \A k \in DOMAIN req'.body.kv : Truthy(req'.body.kv[k])
        /\ "user_id" \in DOMAIN req'.body.kv => Exists("User", req'.body.kv["user_id"])
        /\ MissingFields(CreateOps[op], req'.body) # {})
       => /\ resp'.status = 400
          /\ resp'.error \in {"Missing " \o f : f \in MissingFields(CreateOps[op], req'.body)}
          /\ objects' = objects
    ]_vars

\* the target of a create (its path parent) or of an update (the object)
TargetExists(op, id) ==
  IF op \in DOMAIN CreateOps THEN ParentExists(CreateOps[op], id)
  ELSE Exists(UpdateOps[op], id)

\* C5: every create or update request, on an existing parent or target, whose
\* body is absent, unparseable or not a mapping gets 400 with
\* {"error": "Not a JSON"}, never a server error, and changes no stored object.
C5_MalformedBody ==
  [][\A op \in (DOMAIN CreateOps) \cup (DOMAIN UpdateOps) :
       (/\ req'.op = op
        /\ ~IsMapping(req'.body)
        /\ TargetExists(op, req'.id))
       => /\ resp' = NotAJSON
          /\ objects' = objects
    ]_vars

\* a user_id that names a user (an id, not an empty value) and resolves to none
UnknownUser(body) ==
  /\ IsMapping(body)
  /\ "user_id" \in DOMAIN body.kv
  /\ Truthy(body.kv["user_id"])
  /\ ~Exists("User", body.kv["user_id"])

\* C6: creating a City under a State id that does not exist returns 404 and
\* creates no City; creating a Place under an existing City, or a Review under
\* an existing Place, with a user_id that resolves to no User returns 404 and
\* creates no Place, no Review.
C6_ParentGated ==
  [][/\ (req'.op = "create_city" /\ ~Exists("State", req'.id))
          => (resp' = page_not_found /\ objects' = objects)
     /\ (req'.op = "create_place" /\ Exists("City", req'.id) /\ UnknownUser(req'.body))
          => (resp' = page_not_found /\ objects' = objects)
     /\ (req'.op = "create_review" /\ Exists("Place", req'.id) /\ UnknownUser(req'.body))
          => (resp' = page_not_found /\ objects' = objects)
    ]_vars

C6_Witness ==
  /\ req.op = "create_place"
  /\ Exists("City", req.id)
  /\ UnknownUser(req.body)
  /\ "name" \in DOMAIN req.body.kv
  /\ resp.status = 404
  /\ Places = {}

\* the attributes an update must keep, per type: the base ones and the
\* type's protected fields
Kept(cls) == Protected[cls] \ {"updated_at"}

\* C7: for every type and through every update request, an object's id,
\* created_at, type discriminator and type-specific protected fields keep the
\* values they had at creation, and every non-protected key of an accepted
\* update payload holds the supplied value afterwards.
C7_ProtectedKept ==
  [][/\ \A k \in (DOMAIN objects) \cap (DOMAIN objects') :
          \A a \in Kept(k[1]) \cap DOMAIN objects[k].attrs :
            a \in DOMAIN objects'[k].attrs /\ objects'[k].attrs[a] = objects[k].attrs[a]
     /\ \A k \in DOMAIN objects' :
          /\ objects'[k].attrs["id"] = k[2]
          /\ objects'[k].attrs["created_at"] = 1
          /\ objects'[k].attrs["__class__"] = ClassCode(k[1])
     /\ \A op \in DOMAIN UpdateOps :
          (req'.op = op /\ resp'.status = 200)
          => LET obj == objects'[Key(UpdateOps[op], req'.id)]
             IN /\ \A a \in (DOMAIN req'.body.kv) \ Protected[UpdateOps[op]] :
                     a \in DOMAIN obj.attrs /\ obj.attrs[a] = req'.body.kv[a]
                /\ req'.body.hasIds => obj.amenity_ids = req'.body.ids
    ]_vars

C7_Witness ==
  /\ req.op = "update_review"
  /\ resp.status = 200
  /\ {"id", "created_at", "__class__", "place_id", "user_id", "text", "x"} \subseteq DOMAIN req.body.kv
  /\ resp.body["text"] = req.body.kv["text"]
  /\ resp.body["place_id"] # req.body.kv["place_id"]
  /\ resp.body["id"] # req.body.kv["id"]

\* C8: for every type, a delete request for an existing id returns 200 with an
\* empty object and removes exactly that object, so that a following get or
\* delete of the id returns 404; a delete request for an id that does not
\* exist returns 404 and removes nothing.
C8_Delete ==
  [][\A op \in DOMAIN DeleteOps, id \in PathIds :
       (req' = [op |-> op, id |-> id, id2 |-> 0, body |-> NoneBody])
       => LET cls == DeleteOps[op]
          IN IF Exists(cls, id)
             THEN /\ resp' = JsonObject(200, EmptyDict)
                  /\ DOMAIN objects' = (DOMAIN objects) \ {Key(cls, id)}
                  /\ \A k \in DOMAIN objects' :
                       /\ objects'[k].attrs = objects[k].attrs
                       /\ objects'[k].amenity_ids = objects[k].amenity_ids
                  /\ GetOf(cls, id)'.resp = page_not_found
                  /\ DeleteOf(cls, id)'.resp = page_not_found
                  /\ DeleteOf(cls, id)'.objects = objects'
             ELSE /\ resp' = page_not_found
                  /\ objects' = objects
    ]_vars

C8_Witness ==
  /\ req.op = "delete_a_review"
  /\ resp = JsonObject(200, EmptyDict)
  /\ ~Exists("Review", req.id)
  /\ delete_a_review(req.id).resp.status = 404

\* the counts /stats must report: created minus deleted, per type
ExpectedStats ==
  [amenities |-> created["Amenity"] - deleted["Amenity"],
   cities |-> created["City"] - deleted["City"],
   places |-> created["Place"] - deleted["Place"],
   reviews |-> created["Review"] - deleted["Review"],
   states |-> created["State"] - deleted["State"],
   users |-> created["User"] - deleted["User"]]

\* successful creates and deletes, per type, as the responses tell
Succeeded(ops, cls) ==
  \E op \in DOMAIN ops : ops[op] = cls /\ req'.op = op /\ resp'.status \in {200, 201}

\* C9: after any sequence of successful and failed create and delete
\* requests, /stats reports for each of the six types the number of objects
\* created successfully minus the number deleted successfully; a failed
\* request changes no count.
C9_Stats ==
  [][/\ count'.resp = JsonObject(200, ExpectedStats')
     /\ req'.op = "count" => resp' = JsonObject(200, ExpectedStats)
     /\ \A cls \in Classes :
          /\ created'[cls] = created[cls] + (IF Succeeded(CreateOps, cls) THEN 1 ELSE 0)
          /\ deleted'[cls] = deleted[cls] + (IF Succeeded(DeleteOps, cls) THEN 1 ELSE 0)
    ]_vars

C9_Witness ==
  /\ req.op = "count"
  /\ created["User"] = 1 /\ deleted["User"] = 1
  /\ created["Review"] = 1 /\ deleted["Review"] = 0
  /\ resp.body["users"] = 0
  /\ resp.body["reviews"] = 1

\* a serialization without its updated_at
WithoutUpdatedAt(dict) == [k \in (DOMAIN dict) \ {"updated_at"} |-> dict[k]]

\* C10: for every type, a successful create followed at once by a get of the
\* returned id returns 200 with the attributes of the create response
\* (updated_at aside), every key of the create payload among them.
C10_RoundTrip ==
  \A op \in DOMAIN CreateOps :
    (req.op = op /\ resp.status = 201)
    => LET got == GetOf(CreateOps[op], resp.body["id"]).resp
       IN /\ got.status = 200
          /\ WithoutUpdatedAt(got.body) = WithoutUpdatedAt(resp.body)
          /\ DOMAIN req.body.kv \subseteq DOMAIN got.body

C10_Witness ==
  /\ req.op = "create_city"
  /\ resp.status = 201
  /\ DOMAIN req.body.kv = {"name", "state_id"}
  /\ get_a_city(resp.body["id"]).resp.body = resp.body

\* the amenities associated with a place, as a set
Members(place) == {Association(place)[i] : i \in 1..Len(Association(place))}

\* the elements of a list response
Listed(response) == {response.list[i] : i \in 1..Len(response.list)}

\* C11: from the same places and amenities, every sequence of list-amenities,
\* link and unlink requests gets the same status codes and the same set of
\* amenities in list responses in relational and in embedded-list mode: in
\* both modes a new place has no amenity, and every such request answers and
\* changes the membership sets as one function of the membership sets, a
\* function that does not mention the mode.
C11_ModesAgree ==
  [][\A P, A \in PathIds :
       LET known == Exists("Place", P) /\ Exists("Amenity", A)
           linked == known /\ A \in Members(storage_get("Place", P))
           others == \A k \in Places : k[2] # P => Members(objects'[k]) = Members(objects[k])
       IN /\ (req'.op = "create_place" /\ resp'.status = 201)
               => Members(objects'[Key("Place", resp'.body["id"])]) = {}
          /\ (req' = [op |-> "link_place_amenity", id |-> P, id2 |-> A, body |-> NoneBody])
               => /\ resp'.status = (IF ~known THEN 404 ELSE IF linked THEN 200 ELSE 201)
                  /\ known => /\ Members(objects'[Key("Place", P)])
                                   = Members(objects[Key("Place", P)]) \cup {A}
                               /\ resp'.body = to_dict(storage_get("Amenity", A))
                  /\ others
          /\ (req' = [op |-> "delete_place_amenity", id |-> P, id2 |-> A, body |-> NoneBody])
               => /\ resp'.status = (IF linked THEN 200 ELSE 404)
                  /\ Exists("Place", P)
                       => Members(objects'[Key("Place", P)])
                            = Members(objects[Key("Place", P)]) \ {A}
                  /\ others
          /\ (req' = [op |-> "get_place_amenities", id |-> P, id2 |-> 0, body |-> NoneBody])
               => /\ resp'.status = (IF Exists("Place", P) THEN 200 ELSE 404)
                  /\ Exists("Place", P)
                       => Listed(resp') = {to_dict(storage_get("Amenity", a)) :
                                             a \in Members(storage_get("Place", P))}
                  /\ objects' = objects
    ]_vars

C11_Witness ==
  /\ HBNB_TYPE_STORAGE = "file"
  /\ req.op = "get_place_amenities"
  /\ resp.status = 200
  /\ Association(storage_get("Place", req.id)) = <<2, 1>>
  /\ Listed(resp) = {to_dict(storage_get("Amenity", 1)), to_dict(storage_get("Amenity", 2))}

\* C12: link and unlink are mutual inverses on the membership set.  For an
\* existing Place P and Amenity X: when X is not associated with P, link then
\* unlink returns 201 then 200 and P's amenity set is what it was; when X is
\* associated with P, unlink then link returns 200 then 201 and P's amenity
\* set is what it was; the associations of the other places are untouched.
C12_LinkUnlinkInverse ==
  [][\A P, A \in PathIds :
       LET before == Members(storage_get("Place", P))
       IN /\ (/\ req' = [op |-> "link_place_amenity", id |-> P, id2 |-> A, body |-> NoneBody]
               /\ Exists("Place", P) /\ Exists("Amenity", A)
               /\ A \notin before)
              => LET second == delete_place_amenity(P, A)'
                 IN /\ resp'.status = 201
                    /\ second.resp.status = 200
                    /\ Members(second.objects[Key("Place", P)]) = before
                    /\ \A k \in Places : k[2] # P
                          => Members(second.objects[k]) = Members(objects[k])
          /\ (/\ req' = [op |-> "delete_place_amenity", id |-> P, id2 |-> A, body |-> NoneBody]
               /\ Exists("Place", P) /\ Exists("Amenity", A)
               /\ A \in before)
              => LET second == link_place_amenity(P, A)'
                 IN /\ resp'.status = 200
                    /\ second.resp.status = 201
                    /\ Members(second.objects[Key("Place", P)]) = before
                    /\ \A k \in Places : k[2] # P
                          => Members(second.objects[k]) = Members(objects[k])
    ]_vars

\* C13: for every successful creation of a child (City under State, Place
\* under City, Review under Place) the foreign key of the created object
\* (state_id, city_id, place_id) is the parent id of the request path,
\* whatever the payload gave for that key.
C13_ForeignKeyForced ==
  [][\A op \in {"create_city", "create_place", "create_review"} :
       (req'.op = op /\ resp'.status = 201)
       => LET cls == CreateOps[op]
              new == objects'[Key(cls, resp'.body["id"])]
          IN /\ DictGet(new.attrs, ForeignKey[cls]) = req'.id
             /\ DictGet(resp'.body, ForeignKey[cls]) = req'.id
    ]_vars

C13_Witness ==
  /\ req.op = "create_review"
  /\ resp.status = 201
  /\ "place_id" \in DOMAIN req.body.kv
  /\ req.body.kv["place_id"] # req.id
  /\ storage_get("Review", resp.body["id"]).attrs["place_id"] = req.id

\* the requests that list the children of a parent, by the children's type
ChildOps ==
  [list_cities_of_state |-> "City", list_places_of_city |-> "Place",
   list_reviews_of_place |-> "Review"]

\* the stored objects of a type that were created under a parent: their
\* foreign key is the parent's id from creation on
LiveChildren(cls, parent_id) ==
  {k \in DOMAIN objects :
     k[1] = cls /\ DictGet(objects[k].attrs, ForeignKey[cls]) = parent_id}

\* C14: listing the children of a parent (cities of a state, places of a
\* city, reviews of a place) returns 404 when the parent does not exist and
\* otherwise 200 with exactly the children created under that parent and not
\* deleted since: a successful create adds the new child to its path parent's
\* children and to no other's, a successful delete of a child removes it, no
\* other request changes any parent's children, and a listing returns each
\* of them once and nothing else.
C14_ChildrenListed ==
  [][/\ \A op \in DOMAIN ChildOps :
          req'.op = op
          => LET cls == ChildOps[op]
                 live == LiveChildren(cls, req'.id)
             IN IF ~Exists(ParentOf[cls], req'.id) THEN resp' = page_not_found
                ELSE /\ resp'.status = 200
                     /\ resp'.kind = "list"
                     /\ Listed(resp') = {to_dict(objects[k]) : k \in live}
                     /\ Len(resp'.list) = Cardinality(live)
     /\ \A cls \in DOMAIN ParentOf, q \in PathIds :
          LiveChildren(cls, q)' =
            IF Succeeded(CreateOps, cls)
            THEN LiveChildren(cls, q)
                   \cup (IF q = req'.id THEN {Key(cls, resp'.body["id"])} ELSE {})
            ELSE IF Succeeded(DeleteOps, cls)
            THEN LiveChildren(cls, q) \ {Key(cls, req'.id)}
            ELSE LiveChildren(cls, q)
    ]_vars

C14_Witness ==
  /\ req.op = "list_places_of_city"
  /\ resp.status = 200
  /\ Len(resp.list) = 1
  /\ storage_count("Place") = 2
  /\ deleted["City"] = 0

\* the create request of a type
CreateOf(cls, id, body) ==
  CASE cls = "State" -> create_state(body) [] cls = "Amenity" -> create_amenity(body)
    [] cls = "User" -> create_user(body) [] cls = "City" -> create_city(id, body)
    [] cls = "Place" -> create_place(id, body) [] cls = "Review" -> create_review(id, body)

\* the first required field, in the declared order, that a payload lacks
FirstMissing(cls, body) ==
  Required[cls][CHOOSE i \in 1..Len(Required[cls]) :
                  /\ Required[cls][i] \notin DOMAIN body.kv
                  /\ \A j \in 1..(i - 1) : Required[cls][j] \in DOMAIN body.kv]

Has(body, key) == key \in DOMAIN body.kv /\ Truthy(body.kv[key])

\* the last required field of a Place and of a Review
LastField == [create_place |-> "name", create_review |-> "text"]

C17_UpdateAccepted ==
  [][\A op \in DOMAIN UpdateOps :
       (/\ req'.op = op
        /\ IsMapping(req'.body)
        /\ Exists(UpdateOps[op], req'.id))
       => LET k == Key(UpdateOps[op], req'.id)
          IN /\ resp' = JsonObject(200, to_dict(objects'[k]))
             /\ BodyKeys(req'.body) \subseteq Protected[UpdateOps[op]]
                  => /\ WithoutUpdatedAt(objects'[k].attrs) = WithoutUpdatedAt(objects[k].attrs)
                     /\ objects'[k].amenity_ids = objects[k].amenity_ids
                     /\ objects'[k].amenities = objects[k].amenities
    ]_vars

\* C18: for every type, every key of an update payload that is not in the
\* type's protected set, a key outside the entity's schema included, is
\* stored on the object with the supplied value: the request returns 200 and
\* a following get shows the key with that value.
C18_UnknownKeysStored ==
  [][\A op \in DOMAIN UpdateOps, id \in PathIds :
       (/\ req'.op = op /\ req'.id = id
        /\ IsMapping(req'.body) /\ ~BodyFalsy(req'.body)
        /\ Exists(UpdateOps[op], id))
       => LET got == GetOf(UpdateOps[op], id)'.resp
          IN /\ resp'.status = 200
             /\ got.status = 200
             /\ \A a \in (DOMAIN req'.body.kv) \ Protected[UpdateOps[op]] :
                  /\ a \in DOMAIN resp'.body /\ resp'.body[a] = req'.body.kv[a]
                  /\ a \in DOMAIN got.body /\ got.body[a] = req'.body.kv[a]
    ]_vars

C18_Witness ==
  /\ req.op = "update_state"
  /\ resp.status = 200
  /\ DOMAIN req.body.kv = {"x"}
  /\ get_a_state(req.id).resp.body["x"] = req.body.kv["x"]

\* the six keys of the /stats object
StatsKeys == {"amenities", "cities", "places", "reviews", "states", "users"}

\* C19: in every reachable state /status returns 200 with {"status": "OK"}
\* and /stats returns 200 with an object of the six keys amenities, cities,
\* places, reviews, states and users, each an integer; neither request
\* changes a stored object.
C19_Index ==
  [][/\ status.resp = JsonObject(200, [status |-> "OK"])
     /\ status.objects = objects
     /\ count.resp.status = 200
     /\ count.resp.kind = "object"
     /\ DOMAIN count.resp.body = StatsKeys
     /\ \A k \in StatsKeys : count.resp.body[k] \in Nat
     /\ count.objects = objects
     /\ req'.op = "status" => (resp' = status.resp /\ objects' = objects)
     /\ req'.op = "count" => (resp' = count.resp /\ objects' = objects)
    ]_vars

C19_Witness ==
  /\ req.op = "status"
  /\ resp.status = 200
  /\ resp.body = [status |-> "OK"]
  /\ storage_count("Review") = 1

\* the update request of a type
UpdateOf(cls, id, body) ==
  CASE cls = "State" -> update_state(id, body) [] cls = "Amenity" -> update_amenity(id, body)
    [] cls = "User" -> update_user(id, body) [] cls = "City" -> update_city(id, body)
    [] cls = "Place" -> update_place(id, body) [] cls = "Review" -> update_review(id, body)

\* the list-children request of a child type
ListChildrenOf(cls, id) ==
  CASE cls = "City" -> list_cities_of_state(id) [] cls = "Place" -> list_places_of_city(id)
    [] cls = "Review" -> list_reviews_of_place(id)

\* the answer to a missing object: 404 with {"error": "Not found"}, nothing changed
NotFound(out) == out.resp = JsonError(404, "Not found") /\ out.objects = objects

\* C20: a request for a route that does not exist, and every get, update
\* (whatever its body), delete, list-children, list-amenities, link or unlink
\* request that names a missing object, is answered with status 404 and the
\* JSON body {"error": "Not found"}; so is every request that was answered
\* with 404.
C20_NotFound ==
  /\ req.op = "page_not_found" => resp = JsonError(404, "Not found")
  /\ resp.status = 404 => resp = JsonError(404, "Not found")
  /\ \A id \in PathIds :
       /\ \A cls \in Classes :
            ~Exists(cls, id)
            => /\ NotFound(GetOf(cls, id))
               /\ NotFound(DeleteOf(cls, id))
               /\ \A body \in UpdateBodies[cls] : NotFound(UpdateOf(cls, id, body))
       /\ \A cls \in DOMAIN ParentOf :
            ~Exists(ParentOf[cls], id) => NotFound(ListChildrenOf(cls, id))
       /\ ~Exists("Place", id) => NotFound(get_place_amenities(id))
       /\ \A id2 \in PathIds :
            (~Exists("Place", id) \/ ~Exists("Amenity", id2))
            => /\ NotFound(link_place_amenity(id, id2))
               /\ NotFound(delete_place_amenity(id, id2))

C20_Witness ==
  /\ req.op = "link_place_amenity"
  /\ Exists("Place", req.id)
  /\ deleted["Amenity"] = 1
  /\ resp = JsonError(404, "Not found")

\* C21: every request, whatever its outcome (success, 400, 404, a server
\* error), is eventually followed by exactly one release of the storage
\* session before the next request of the thread begins: the steps of a
\* thread alternate between a handler and the release that follows it, the
\* release changes nothing of the repository, and no handler's return leaves
\* the release pending for ever.
C21_ReleaseAfterRequest ==
  /\ [][\/ pc = "idle" /\ pc' = "teardown" /\ req'.op # "none"
        \/ pc = "teardown" /\ pc' = "idle" /\ req' = NoRequest
             /\ UNCHANGED <<objects, created, deleted>>]_vars
  /\ [](pc = "teardown" => <>(pc = "idle"))

C21_Witness ==
  /\ pc = "teardown"
  /\ resp.status = 404
  /\ created["State"] = 1 /\ deleted["State"] = 1

\* C22: in embedded-list mode, in every reachable state, every id of every
\* Place's amenity_ids list names an existing Amenity, and the listing of the
\* amenities of every existing Place answers 200 with one serialized Amenity
\* per id of the list.
C22_NoDanglingAmenity ==
  HBNB_TYPE_STORAGE = "file" =>
    \A k \in Places :
      LET ids == objects[k].amenity_ids
          listing == get_place_amenities(k[2]).resp
      IN /\ \A i \in 1..Len(ids) : Exists("Amenity", ids[i])
         /\ listing.status = 200
         /\ listing.kind = "list"
         /\ Len(listing.list) = Len(ids)

\* the references an object of a class holds: attribute -> class referred to
References ==
  [State   |-> EmptyDict,
   Amenity |-> EmptyDict,
   User    |-> EmptyDict,
   City    |-> [state_id |-> "State"],
   Place   |-> [city_id |-> "City", user_id |-> "User"],
   Review  |-> [place_id |-> "Place", user_id |-> "User"]]

\* C23: in every reachable state, storage.delete removing only the object it
\* is given, every City's state_id names an existing State, every Place's
\* city_id and user_id an existing City and User, and every Review's place_id
\* and user_id an existing Place and User.
C23_ReferencesResolve ==
  \A k \in DOMAIN objects :
    \A fk \in DOMAIN References[k[1]] :
      Exists(References[k[1]][fk], DictGet(objects[k].attrs, fk))

\* the calls of a handler that change the repository or make a change
\* durable, in the order the handler made them
Mutating(storageCalls) ==
  SelectSeq(storageCalls, LAMBDA c : c \in {"new", "delete", "save", "append", "remove"})

\* what C24 asks of a handler's outcome for a request op
SavedOrUntouched(op, out) ==
  /\ (op \in DOMAIN CreateOps /\ out.resp.status = 201)
       => Mutating(out.calls) = <<"new", "save">>
  /\ (op \in DOMAIN DeleteOps /\ out.resp.status = 200)
       => Mutating(out.calls) = <<"delete", "save">>
  /\ (op = "link_place_amenity" /\ out.resp.status = 201)
       => Mutating(out.calls) = <<"append", "save">>
  /\ (op = "delete_place_amenity" /\ out.resp.status = 200)
       => Mutating(out.calls) = <<"remove", "save">>
  /\ (out.resp.status \in {400, 404} \/ (op = "link_place_amenity" /\ out.resp.status = 200))
       => Mutating(out.calls) = <<>>

\* C24: every successful create, delete, link (201) and unlink calls
\* storage.save() after its mutating call (new, delete, the append to or the
\* remove from the amenity list) and before it returns, and makes no other
\* such call; every request answered 400 or 404, and a link answered 200 for
\* an amenity already linked, calls none of storage.new, storage.delete and
\* storage.save.  The update handlers, which no request of the
\* specification fires, are applied to every id and payload in every state.
C24_SaveAfterMutation ==
  /\ pc = "teardown" => SavedOrUntouched(req.op, [resp |-> resp, calls |-> calls])
  /\ pc = "idle" =>
       \A cls \in Classes : \A id \in PathIds, body \in UpdateBodies[cls] :
         SavedOrUntouched("update", UpdateOf(cls, id, body))

C24_Witness ==
  /\ pc = "teardown"
  /\ req.op = "link_place_amenity"
  /\ resp.status = 201
  /\ calls = <<"get Place", "get Amenity", "append", "save">>
  /\ deleted["City"] = 1

\* the requests that read: get, list, list of children, list of amenities
ReadOps ==
  {"list_all_states", "list_all_amenities", "list_all_users",
   "get_a_state", "get_a_amenity", "get_a_user", "get_a_city", "get_a_place", "get_a_review",
   "list_cities_of_state", "list_places_of_city", "list_reviews_of_place",
   "get_place_amenities", "status", "count"}

\* the handler's outcome leaves the repository as it is
Untouched(out) ==
  /\ out.objects = objects
  /\ out.created = created
  /\ out.deleted = deleted

\* C25: every request answered 400 or 404, and every get or list request,
\* leaves the whole repository unchanged: the set of stored objects, every
\* attribute of every object, every Place's amenity association.  Stated of
\* every request served, and, in every state between requests, of every
\* update request (every id, every payload) and every list request that
\* could be sent there: a rejected update has applied none of its keys.
C25_RejectedChangesNothing ==
  /\ [][(resp'.status \in {400, 404} \/ req'.op \in ReadOps)
          => UNCHANGED <<objects, created, deleted>>]_vars
  /\ [](pc = "idle" =>
          /\ \A cls \in Classes : \A id \in PathIds, body \in UpdateBodies[cls] :
                UpdateOf(cls, id, body).resp.status \in {400, 404}
                  => Untouched(UpdateOf(cls, id, body))
          /\ Untouched(list_all_states) /\ Untouched(list_all_amenities)
          /\ Untouched(list_all_users))

C25_Witness ==
  /\ pc = "teardown"
  /\ req.op = "create_place"
  /\ resp.status = 400
  /\ \E k \in Places :
       /\ Association(objects[k]) # <<>>
       /\ UpdateOf("Place", k[2], NoneBody).resp.status = 400

\* C26: when two threads serve link requests for the same existing Place and
\* Amenity, their membership tests and appends interleaved in any order, then
\* once both have answered the Place's amenity list holds that amenity
\* exactly once and at most one of the two has answered 201.
C26_ConcurrentLink ==
  \A t, u \in Threads :
    (/\ t # u
     /\ threads[t].pc = "done" /\ threads[u].pc = "done"
     /\ threads[t].status \in {200, 201} /\ threads[u].status \in {200, 201}
     /\ threads[t].place_id = threads[u].place_id
     /\ threads[t].amenity_id = threads[u].amenity_id)
    => /\ ListCount(Association(storage_get("Place", threads[t].place_id)),
                    threads[t].amenity_id) = 1
       /\ ~(threads[t].status = 201 /\ threads[u].status = 201)

====
